---- MODULE Spec2Model ----
(***************************************************************************)
(* Model of the crypto-valuation repository:                               *)
(*   src/get_schema.py        infer_schema                                 *)
(*   src/schema_analyzer.py   analyze_schema                               *)
(*   src/main.py              fetch_data, main (load, flatten, join)       *)
(*   src/analysis/*.py        analyze_efficiency, analyze_valuation        *)
(***************************************************************************)
EXTENDS Integers, Sequences, FiniteSets, TLC

VARIABLES
    endpoint,         \* the JSON document each of the three API endpoints serves
    duckdb_rejects_empty_executemany, \* the installed DuckDB build (see ExecutemanyRaises)
    calls,            \* the number of analysis functions the caller runs
    pc,               \* main(): the statement about to run
    requests,         \* main(): number of requests.get calls made, per endpoint
    errors,           \* main(): the endpoints fetch_data printed an error for
    protocols_data,   \* main(): the lists fetch_data returned
    fees_data,
    revenue_data,
    protocols,        \* main(): the DuckDB tables of raw JSON rows
    fees,
    revenue,
    protocols_expanded, \* main(): the flattened tables
    fees_expanded,
    revenue_expanded,
    joined_data,      \* main(): the joined table
    analysis,         \* the analysis function called last, and how it ended
    results,          \* the dictionary of rankings it returned
    history,          \* every analysis call made so far, and how it ended
    data_dir,         \* the files of the directory data/
    connections,      \* the analysis calls whose DuckDB connection is open
    reads,            \* the calls that wrote the files the last call read
    schema_in,        \* the parsed JSON value handed to the schema functions
    schema_desc,      \* the result of infer_schema(schema_in)
    schema_profile,   \* the result of analyze_schema(schema_in)
    schema_done       \* which of the two schema functions have returned

schema_vars == <<schema_in, schema_desc, schema_profile, schema_done>>

env_vars == <<endpoint, duckdb_rejects_empty_executemany, calls>>

main_vars == <<pc, requests, errors, protocols_data, fees_data, revenue_data,
               protocols, fees, revenue,
               protocols_expanded, fees_expanded, revenue_expanded, joined_data>>

analysis_vars == <<analysis, results, history, data_dir, connections, reads>>

vars == <<env_vars, main_vars, analysis_vars, schema_vars>>

(***************************************************************************)
(* Bounds                                                                  *)
(***************************************************************************)
MaxListLen == 2
MaxEntities == 2
MaxProtocols == 3
MaxMetrics == 2
MaxRows == 2
MaxRecords == 1
MaxCalls == 2

(***************************************************************************)
(* Program constants                                                       *)
(***************************************************************************)
\* LIMIT 5 of the ranking queries
TopK == 5

(***************************************************************************)
(* Parsed JSON values.  A value is [kind, val]; an object's val is the     *)
(* sequence of its (key, value) items in dict order, an array's val the    *)
(* sequence of its elements.  "other" is a Python value that no JSON       *)
(* document decodes to (bytes).                                            *)
(***************************************************************************)
JStr(s)   == [kind |-> "string",  val |-> s]
JInt(n)   == [kind |-> "integer", val |-> n]
JNum(s)   == [kind |-> "number",  val |-> s]
JBool(b)  == [kind |-> "boolean", val |-> b]
JNull     == [kind |-> "null",    val |-> "None"]
JOther    == [kind |-> "other",   val |-> "bytes"]
JArr(seq) == [kind |-> "array",   val |-> seq]
JObj(seq) == [kind |-> "object",  val |-> seq]

Scalars == {JStr("x"), JInt(1), JNum("1.5"), JBool(TRUE), JBool(FALSE), JNull, JOther}

SeqsUpTo(S, n) == UNION {[1..k -> S] : k \in 0..n}

InnerObjects == {JObj(<<>>)} \cup {JObj(<< <<"b", v>> >>) : v \in Scalars}

Elements == Scalars \cup InnerObjects

Arrays == {JArr(s) : s \in SeqsUpTo(Elements, MaxListLen)}

OuterObjects == {JObj(<< <<"a", v>> >>) : v \in Elements \cup Arrays}

SchemaInputs == Elements \cup Arrays \cup OuterObjects

(***************************************************************************)
(* Python's view of a decoded value: its class, and isinstance with        *)
(* bool a subclass of int.                                                 *)
(***************************************************************************)
PyTypeName(v) ==
    CASE v.kind = "object"  -> "dict"
      [] v.kind = "array"   -> "list"
      [] v.kind = "string"  -> "str"
      [] v.kind = "integer" -> "int"
      [] v.kind = "number"  -> "float"
      [] v.kind = "boolean" -> "bool"
      [] v.kind = "null"    -> "NoneType"
      [] OTHER              -> v.val

isinstance(v, cls) ==
    \/ PyTypeName(v) = cls
    \/ PyTypeName(v) = "bool" /\ cls = "int"

(***************************************************************************)
(* get_schema.py: infer_schema                                             *)
(***************************************************************************)
RECURSIVE infer_schema(_)
infer_schema(data) ==
    IF isinstance(data, "dict")
    THEN [type |-> "object",
          properties |-> [i \in 1..Len(data.val) |->
                            <<data.val[i][1], infer_schema(data.val[i][2])>>]]
    ELSE IF isinstance(data, "list")
    THEN [type |-> "array",
          items |-> IF data.val # <<>> THEN <<infer_schema(data.val[1])>> ELSE <<>>]
    ELSE IF isinstance(data, "str")   THEN [type |-> "string"]
    ELSE IF isinstance(data, "int")   THEN [type |-> "integer"]
    ELSE IF isinstance(data, "float") THEN [type |-> "number"]
    ELSE IF isinstance(data, "bool")  THEN [type |-> "boolean"]
    ELSE IF data = JNull              THEN [type |-> "null"]
    ELSE [type |-> "unknown"]

(***************************************************************************)
(* schema_analyzer.py: analyze_schema                                      *)
(* A schema is a function from field path to the set of type names seen.   *)
(***************************************************************************)
EmptySchema == [p \in {} |-> {}]

\* schema[k].update(v) for every (k, v) of nested, on a defaultdict(set)
SchemaUpdate(schema, nested) ==
    [p \in DOMAIN schema \cup DOMAIN nested |->
        (IF p \in DOMAIN schema THEN schema[p] ELSE {})
        \cup (IF p \in DOMAIN nested THEN nested[p] ELSE {})]

CurrentPath(path, key) == IF path # "" THEN path \o "." \o key ELSE key

RECURSIVE analyze_schema(_, _)
RECURSIVE AnalyzeItems(_, _, _, _)
RECURSIVE AnalyzeElementsFrom(_, _, _)
\* a profiler that visits every element of a list instead of the first
AnalyzeElementsFrom(data, path, i) ==
    IF i > Len(data.val) THEN EmptySchema
    ELSE SchemaUpdate(analyze_schema(data.val[i], path),
                      AnalyzeElementsFrom(data, path, i + 1))

analyze_schema_every_element(data, path) ==
    IF isinstance(data, "dict")
    THEN AnalyzeItems(data, path, 1, EmptySchema)
    ELSE IF isinstance(data, "list") /\ data.val # <<>>
    THEN AnalyzeElementsFrom(data, path, 1)
    ELSE EmptySchema

\* the loop over data.items(), from item i on, with the schema built so far
AnalyzeItems(data, path, i, schema) ==
    IF i > Len(data.val) THEN schema
    ELSE LET key == data.val[i][1]
             value == data.val[i][2]
             current_path == CurrentPath(path, key)
             added == SchemaUpdate(schema, [p \in {current_path} |-> {PyTypeName(value)}])
             merged == IF isinstance(value, "dict") \/ isinstance(value, "list")
                       THEN SchemaUpdate(added, analyze_schema(value, current_path))
                       ELSE added
         IN AnalyzeItems(data, path, i + 1, merged)

analyze_schema(data, path) ==
    IF isinstance(data, "dict")
    THEN AnalyzeItems(data, path, 1, EmptySchema)
    ELSE IF isinstance(data, "list") /\ data.val # <<>>
    THEN SchemaUpdate(EmptySchema, analyze_schema(data.val[1], path))
    ELSE EmptySchema

(***************************************************************************)
(* JSON objects as the pipeline reads them                                 *)
(***************************************************************************)
HasKey(obj, key) == \E i \in 1..Len(obj.val) : obj.val[i][1] = key

Field(obj, key) == obj.val[CHOOSE i \in 1..Len(obj.val) : obj.val[i][1] = key][2]

RECURSIVE Flat(_)
\* the rows of a sequence of row sequences, in order
Flat(ss) == IF ss = <<>> THEN <<>> ELSE Head(ss) \o Flat(Tail(ss))

(***************************************************************************)
(* DuckDB values and functions used by main.py.  A column value is SQL     *)
(* NULL, a JSON value, or a VARCHAR.                                       *)
(***************************************************************************)
SqlNull == [kind |-> "SQLNULL", val |-> "NULL"]

Varchar(s) == [kind |-> "VARCHAR", val |-> s]

\* a = b is true (not NULL, not false)
SqlEq(a, b) == a # SqlNull /\ b # SqlNull /\ a.kind = b.kind /\ a.val = b.val

\* JSON_EXTRACT(data, '$.key'): the JSON at the path (a JSON null stays a
\* JSON value), SQL NULL when the path does not exist
JSON_EXTRACT(data, key) ==
    IF data.kind = "object" /\ HasKey(data, key) THEN Field(data, key) ELSE SqlNull

\* json_type(j): DuckDB names the JSON types in upper case
json_type(j) ==
    CASE j = SqlNull        -> SqlNull
      [] j.kind = "object"  -> Varchar("OBJECT")
      [] j.kind = "array"   -> Varchar("ARRAY")
      [] j.kind = "string"  -> Varchar("VARCHAR")
      [] j.kind = "integer" -> IF j.val < 0 THEN Varchar("BIGINT") ELSE Varchar("UBIGINT")
      [] j.kind = "number"  -> Varchar("DOUBLE")
      [] j.kind = "boolean" -> Varchar("BOOLEAN")
      [] OTHER              -> Varchar("NULL")

COALESCE(x, default) == IF x # SqlNull THEN x ELSE default

\* CAST(j AS VARCHAR[]) of a JSON array of strings and nulls; NULL and the
\* JSON null give NULL
CastVarcharList(j) ==
    IF j = SqlNull \/ j.kind = "null" THEN SqlNull
    ELSE [kind |-> "LIST",
          val  |-> [i \in 1..Len(j.val) |->
                      IF j.val[i].kind = "null" THEN SqlNull ELSE Varchar(j.val[i].val)]]

\* UNNEST(list): one row per element, none for NULL or the empty list
UNNEST(list) == IF list = SqlNull THEN <<>> ELSE list.val

(***************************************************************************)
(* main.py, step 4: the three flattening statements                        *)
(***************************************************************************)
\* a WHERE clause without the test of the type of chains
WhereWithoutTypeTest(data) ==
    /\ JSON_EXTRACT(data, "name") # SqlNull
    /\ JSON_EXTRACT(data, "category") # SqlNull
    /\ JSON_EXTRACT(data, "chains") # SqlNull

\* WHERE name IS NOT NULL AND category IS NOT NULL AND chains IS NOT NULL
\*   AND json_type(chains) = 'array'
MandatoryWhere(data) ==
    /\ JSON_EXTRACT(data, "name") # SqlNull
    /\ JSON_EXTRACT(data, "category") # SqlNull
    /\ JSON_EXTRACT(data, "chains") # SqlNull
    /\ SqlEq(json_type(JSON_EXTRACT(data, "chains")), Varchar("array"))

\* CAST(j AS VARCHAR[]) raises a conversion error on JSON that is no array
CastRaises(j) == j # SqlNull /\ j.kind \notin {"array", "null"}

\* the statement raises when a row that passes the WHERE clause fails the cast
ExpandRaises(table) ==
    \E i \in 1..Len(table) :
        MandatoryWhere(table[i]) /\ CastRaises(JSON_EXTRACT(table[i], "chains"))

Chains(data) == UNNEST(CastVarcharList(JSON_EXTRACT(data, "chains")))

ProtocolRow(data, chain) ==
    [name        |-> JSON_EXTRACT(data, "name"),
     category    |-> JSON_EXTRACT(data, "category"),
     chain       |-> chain,
     protocol_id |-> JSON_EXTRACT(data, "id"),
     tvl         |-> COALESCE(JSON_EXTRACT(data, "tvl"), JInt(0))]

\* the columns of fees_expanded and of revenue_expanded have the same
\* sources; the statement prefixes them fees_ or revenue_
MetricRow(data, chain) ==
    [name     |-> JSON_EXTRACT(data, "name"),
     category |-> JSON_EXTRACT(data, "category"),
     chain    |-> chain,
     id       |-> JSON_EXTRACT(data, "id"),
     t24h     |-> COALESCE(JSON_EXTRACT(data, "total24h"), JInt(0)),
     t7d      |-> COALESCE(JSON_EXTRACT(data, "total7d"), JInt(0)),
     t30d     |-> COALESCE(JSON_EXTRACT(data, "total30d"), JInt(0)),
     t1y      |-> COALESCE(JSON_EXTRACT(data, "total1y"), JInt(0)),
     all_time |-> COALESCE(JSON_EXTRACT(data, "totalAllTime"), JInt(0))]

ExpandProtocols(table) ==
    Flat([i \in 1..Len(table) |->
            IF MandatoryWhere(table[i])
            THEN [j \in 1..Len(Chains(table[i])) |->
                    ProtocolRow(table[i], Chains(table[i])[j])]
            ELSE <<>>])

ExpandMetrics(table) ==
    Flat([i \in 1..Len(table) |->
            IF MandatoryWhere(table[i])
            THEN [j \in 1..Len(Chains(table[i])) |->
                    MetricRow(table[i], Chains(table[i])[j])]
            ELSE <<>>])

(***************************************************************************)
(* main.py, step 5: the inner join on (name, category, chain)              *)
(***************************************************************************)
JoinOn(a, b) ==
    /\ SqlEq(a.name, b.name)
    /\ SqlEq(a.category, b.category)
    /\ SqlEq(a.chain, b.chain)

JoinedRow(p, f, r) ==
    [name |-> p.name, category |-> p.category, chain |-> p.chain,
     protocol_id |-> p.protocol_id, tvl |-> p.tvl,
     fees_id |-> f.id, fees_24h |-> f.t24h, fees_7d |-> f.t7d,
     fees_30d |-> f.t30d, fees_1y |-> f.t1y, fees_all_time |-> f.all_time,
     revenue_id |-> r.id, revenue_24h |-> r.t24h, revenue_7d |-> r.t7d,
     revenue_30d |-> r.t30d, revenue_1y |-> r.t1y,
     revenue_all_time |-> r.all_time]

\* a join that keeps, for each protocol row, only the first matching fees row
\* and the first matching revenue row
JoinedDataFirstMatch(P, F, R) ==
    Flat([i \in 1..Len(P) |->
      LET fs == {j \in 1..Len(F) : JoinOn(P[i], F[j])}
          rs == {k \in 1..Len(R) : JoinOn(P[i], R[k])}
      IN IF fs = {} \/ rs = {} THEN <<>>
         ELSE <<JoinedRow(P[i],
                          F[CHOOSE j \in fs : \A x \in fs : j <= x],
                          R[CHOOSE k \in rs : \A x \in rs : k <= x])>>])

JoinedData(P, F, R) ==
    Flat([i \in 1..Len(P) |->
      Flat([j \in 1..Len(F) |->
        IF JoinOn(P[i], F[j])
        THEN Flat([k \in 1..Len(R) |->
               IF JoinOn(P[i], R[k]) THEN <<JoinedRow(P[i], F[j], R[k])>> ELSE <<>>])
        ELSE <<>>])])

(***************************************************************************)
(* main.py: fetch_data and main, one action per statement                  *)
(***************************************************************************)
Sources == {"protocols", "fees", "revenue"}

FetchOutcomes == {"ok", "ConnectionError", "HTTPError"}

\* fetch_data's return value on a response that parsed
FetchedList(endpoint_name, data) ==
    IF endpoint_name \in {"fees", "revenue"}
    THEN (IF HasKey(data, "protocols") THEN Field(data, "protocols").val ELSE <<>>)
    ELSE data.val

\* fetch_data: one requests.get; any RequestException gives []
fetch_data(endpoint_name, outcome) ==
    IF outcome = "ok" THEN FetchedList(endpoint_name, endpoint[endpoint_name]) ELSE <<>>

MainInit ==
    /\ pc = "fetch_protocols"
    /\ requests = [s \in Sources |-> 0]
    /\ errors = {}
    /\ protocols_data = <<>> /\ fees_data = <<>> /\ revenue_data = <<>>
    /\ protocols = <<>> /\ fees = <<>> /\ revenue = <<>>
    /\ protocols_expanded = <<>> /\ fees_expanded = <<>> /\ revenue_expanded = <<>>
    /\ joined_data = <<>>

FetchProtocols ==
    /\ UNCHANGED <<env_vars, analysis_vars, schema_vars>>
    /\ pc = "fetch_protocols"
    /\ analysis.call = "none"
    /\ \E outcome \in FetchOutcomes :
         /\ protocols_data' = fetch_data("protocols", outcome)
         /\ errors' = IF outcome = "ok" THEN errors ELSE errors \cup {"protocols"}
    /\ requests' = [requests EXCEPT !["protocols"] = @ + 1]
    /\ pc' = "fetch_fees"
    /\ UNCHANGED <<fees_data, revenue_data, protocols, fees, revenue,
                   protocols_expanded, fees_expanded, revenue_expanded, joined_data>>

FetchFees ==
    /\ UNCHANGED <<env_vars, analysis_vars, schema_vars>>
    /\ pc = "fetch_fees"
    /\ \E outcome \in FetchOutcomes :
         /\ fees_data' = fetch_data("fees", outcome)
         /\ errors' = IF outcome = "ok" THEN errors ELSE errors \cup {"fees"}
    /\ requests' = [requests EXCEPT !["fees"] = @ + 1]
    /\ pc' = "fetch_revenue"
    /\ UNCHANGED <<protocols_data, revenue_data, protocols, fees, revenue,
                   protocols_expanded, fees_expanded, revenue_expanded, joined_data>>

FetchRevenue ==
    /\ UNCHANGED <<env_vars, analysis_vars, schema_vars>>
    /\ pc = "fetch_revenue"
    /\ \E outcome \in FetchOutcomes :
         /\ revenue_data' = fetch_data("revenue", outcome)
         /\ errors' = IF outcome = "ok" THEN errors ELSE errors \cup {"revenue"}
    /\ requests' = [requests EXCEPT !["revenue"] = @ + 1]
    /\ pc' = "load_protocols"
    /\ UNCHANGED <<protocols_data, fees_data, protocols, fees, revenue,
                   protocols_expanded, fees_expanded, revenue_expanded, joined_data>>

\* con.executemany("INSERT ...", rows): DuckDB builds from 0.9 on raise
\* InvalidInputException on an empty list of parameter sets, older ones insert
\* nothing
ExecutemanyRaises(rows) == rows = <<>> /\ duckdb_rejects_empty_executemany

LoadProtocols ==
    /\ UNCHANGED <<env_vars, analysis_vars, schema_vars>>
    /\ pc = "load_protocols"
    /\ IF ExecutemanyRaises(protocols_data)
       THEN pc' = "raised" /\ UNCHANGED protocols
       ELSE pc' = "load_fees" /\ protocols' = protocols_data
    /\ UNCHANGED <<requests, errors, protocols_data, fees_data, revenue_data, fees, revenue,
                   protocols_expanded, fees_expanded, revenue_expanded, joined_data>>

LoadFees ==
    /\ UNCHANGED <<env_vars, analysis_vars, schema_vars>>
    /\ pc = "load_fees"
    /\ IF ExecutemanyRaises(fees_data)
       THEN pc' = "raised" /\ UNCHANGED fees
       ELSE pc' = "load_revenue" /\ fees' = fees_data
    /\ UNCHANGED <<requests, errors, protocols_data, fees_data, revenue_data, protocols, revenue,
                   protocols_expanded, fees_expanded, revenue_expanded, joined_data>>

LoadRevenue ==
    /\ UNCHANGED <<env_vars, analysis_vars, schema_vars>>
    /\ pc = "load_revenue"
    /\ IF ExecutemanyRaises(revenue_data)
       THEN pc' = "raised" /\ UNCHANGED revenue
       ELSE pc' = "flatten_protocols" /\ revenue' = revenue_data
    /\ UNCHANGED <<requests, errors, protocols_data, fees_data, revenue_data, protocols, fees,
                   protocols_expanded, fees_expanded, revenue_expanded, joined_data>>

FlattenProtocols ==
    /\ UNCHANGED <<env_vars, analysis_vars, schema_vars>>
    /\ pc = "flatten_protocols"
    /\ IF ExpandRaises(protocols)
       THEN pc' = "raised" /\ UNCHANGED protocols_expanded
       ELSE pc' = "flatten_fees" /\ protocols_expanded' = ExpandProtocols(protocols)
    /\ UNCHANGED <<requests, errors, protocols_data, fees_data, revenue_data,
                   protocols, fees, revenue, fees_expanded, revenue_expanded, joined_data>>

FlattenFees ==
    /\ UNCHANGED <<env_vars, analysis_vars, schema_vars>>
    /\ pc = "flatten_fees"
    /\ IF ExpandRaises(fees)
       THEN pc' = "raised" /\ UNCHANGED fees_expanded
       ELSE pc' = "flatten_revenue" /\ fees_expanded' = ExpandMetrics(fees)
    /\ UNCHANGED <<requests, errors, protocols_data, fees_data, revenue_data,
                   protocols, fees, revenue, protocols_expanded, revenue_expanded,
                   joined_data>>

FlattenRevenue ==
    /\ UNCHANGED <<env_vars, analysis_vars, schema_vars>>
    /\ pc = "flatten_revenue"
    /\ IF ExpandRaises(revenue)
       THEN pc' = "raised" /\ UNCHANGED revenue_expanded
       ELSE pc' = "join" /\ revenue_expanded' = ExpandMetrics(revenue)
    /\ UNCHANGED <<requests, errors, protocols_data, fees_data, revenue_data,
                   protocols, fees, revenue, protocols_expanded, fees_expanded,
                   joined_data>>

Join ==
    /\ UNCHANGED <<env_vars, analysis_vars, schema_vars>>
    /\ pc = "join"
    /\ joined_data' = JoinedData(protocols_expanded, fees_expanded, revenue_expanded)
    /\ pc' = "done"
    /\ UNCHANGED <<requests, errors, protocols_data, fees_data, revenue_data,
                   protocols, fees, revenue,
                   protocols_expanded, fees_expanded, revenue_expanded>>

MainNext ==
    \/ FetchProtocols \/ FetchFees \/ FetchRevenue
    \/ LoadProtocols \/ LoadFees \/ LoadRevenue
    \/ FlattenProtocols \/ FlattenFees \/ FlattenRevenue
    \/ Join

(***************************************************************************)
(* analysis/efficiency.py and analysis/valuation.py                        *)
(*                                                                         *)
(* read_json_auto gives a table one column per key that occurs in some     *)
(* record; a record without the key, or with null in it, holds SQL NULL.   *)
(* A number is kept as the fraction <<numerator, denominator>> in lowest   *)
(* terms, so that equal quotients are equal values.                        *)
(***************************************************************************)
RECURSIVE GCD(_, _)
GCD(a, b) == IF b = 0 THEN a ELSE GCD(b, a % b)

Abs(n) == IF n < 0 THEN -n ELSE n

Num(n, d) ==
    LET g == GCD(Abs(n), d) IN [kind |-> "NUM", val |-> <<n \div g, d \div g>>]

\* the SQL value read_json_auto gives a field of a record
Column(record, key) ==
    IF ~HasKey(record, key) THEN SqlNull
    ELSE LET v == Field(record, key) IN
         CASE v.kind = "null"    -> SqlNull
           [] v.kind = "integer" -> Num(v.val, 1)
           [] OTHER              -> Varchar(v.val)

\* the columns read_json_auto infers for a list of records
Columns(records) ==
    UNION {{records[i].val[j][1] : j \in 1..Len(records[i].val)} : i \in 1..Len(records)}

\* x > 0 is true
Positive(x) == x # SqlNull /\ x.kind = "NUM" /\ x.val[1] > 0

\* a / b for b > 0; NULL when a is NULL
Divide(a, b) ==
    IF a = SqlNull \/ b = SqlNull THEN SqlNull
    ELSE Num(a.val[1] * b.val[2], a.val[2] * b.val[1])

\* a > b is true
Greater(a, b) ==
    /\ a # SqlNull /\ b # SqlNull
    /\ a.val[1] * b.val[2] > b.val[1] * a.val[2]

Timeframes == <<"24h", "7d", "30d", "1y">>

\* the key of the fees and revenue records behind fees_{timeframe}
TotalKey(timeframe) == "total" \o timeframe

\* the fields the fees and the revenue view select from every record
MetricViewKeys == {"id", "name", "total24h", "total7d", "total30d", "total1y", "totalAllTime"}

ProtocolRecords(data) == data["protocols"].val

MetricRecords(data, source) == Field(data[source], "protocols").val

\* the binder finds every column the views and the queries name
ColumnsBound(data, sources, denominator) ==
    /\ {"id", "category", "chain", denominator} \subseteq Columns(ProtocolRecords(data))
    /\ \A s \in sources :
         /\ HasKey(data[s], "protocols")
         /\ MetricViewKeys \subseteq Columns(MetricRecords(data, s))

\* CREATE VIEW protocols AS SELECT * FROM read_json_auto(protocols_file)
ProtocolsView(data) ==
    [i \in 1..Len(ProtocolRecords(data)) |->
        LET record == ProtocolRecords(data)[i] IN
        [id       |-> Column(record, "id"),
         category |-> Column(record, "category"),
         chain    |-> Column(record, "chain"),
         tvl      |-> Column(record, "tvl"),
         mcap     |-> Column(record, "mcap")]]

\* CREATE VIEW fees (revenue) AS SELECT unnest.id, unnest.name,
\* unnest.total24h AS fees_24h, ... FROM read_json_auto(file), UNNEST(protocols);
\* total[t] is the column fees_{t} (revenue_{t})
MetricView(data, source) ==
    [i \in 1..Len(MetricRecords(data, source)) |->
        LET record == MetricRecords(data, source)[i] IN
        [id       |-> Column(record, "id"),
         name     |-> Column(record, "name"),
         total    |-> [t \in {Timeframes[k] : k \in 1..Len(Timeframes)} |->
                         Column(record, TotalKey(t))],
         all_time |-> Column(record, "totalAllTime")]]

\* WHERE p.tvl > 0 (WHERE p.mcap > 0): a ranking without the filter
NoDenominatorFilter(p, denominator) == TRUE

\* WHERE p.tvl > 0 (WHERE p.mcap > 0)
DenominatorFilter(p, denominator) == Positive(p[denominator])

\* one row of efficiency_data (valuation_data): protocol_name, category, chain,
\* tvl (mcap) as denominator, fees (revenue) as numerator, and the ratio
RatioRow(m, p, timeframe, denominator) ==
    [protocol_name |-> m.name,
     category      |-> p.category,
     chain         |-> p.chain,
     denominator   |-> p[denominator],
     numerator     |-> m.total[timeframe],
     ratio         |-> IF Positive(p[denominator])
                       THEN Divide(m.total[timeframe], p[denominator])
                       ELSE Num(0, 1)]

\* FROM fees f INNER JOIN protocols p ON f.id = p.id WHERE p.tvl > 0
RatioData(metrics, protocol_rows, timeframe, denominator) ==
    Flat([i \in 1..Len(metrics) |->
      Flat([j \in 1..Len(protocol_rows) |->
        IF /\ SqlEq(metrics[i].id, protocol_rows[j].id)
           /\ DenominatorFilter(protocol_rows[j], denominator)
        THEN <<RatioRow(metrics[i], protocol_rows[j], timeframe, denominator)>>
        ELSE <<>>])])

Reverse(s) == [i \in 1..Len(s) |-> s[Len(s) + 1 - i]]

\* ORDER BY gives rows of equal ratio no order: the engine leaves them in the
\* order it scanned them, or in the opposite one
TieOrders == {"scan", "reverse"}

\* the opposite order: ORDER BY ratio ASC
BeforeAscending(a, b) == a.ratio # SqlNull /\ (b.ratio = SqlNull \/ Greater(b.ratio, a.ratio))

\* a sorts before b under ORDER BY ratio DESC (NULLS LAST)
Before(a, b) == a.ratio # SqlNull /\ (b.ratio = SqlNull \/ Greater(a.ratio, b.ratio))

RECURSIVE SortedInsert(_, _)
SortedInsert(x, sorted) ==
    IF sorted = <<>> THEN <<x>>
    ELSE IF Before(x, Head(sorted)) THEN <<x>> \o sorted
    ELSE <<Head(sorted)>> \o SortedInsert(x, Tail(sorted))

RECURSIVE OrderByFrom(_, _, _)
OrderByFrom(rows, i, sorted) ==
    IF i > Len(rows) THEN sorted
    ELSE OrderByFrom(rows, i + 1, SortedInsert(rows[i], sorted))

\* ORDER BY ratio DESC
OrderByRatioDesc(rows, tie) ==
    OrderByFrom(IF tie = "scan" THEN rows ELSE Reverse(rows), 1, <<>>)

\* LIMIT 5
Limit(rows) == SubSeq(rows, 1, IF Len(rows) < TopK THEN Len(rows) ELSE TopK)

\* the ranking query of one timeframe
RankQuery(metrics, protocol_rows, timeframe, denominator, tie) ==
    Limit(OrderByRatioDesc(RatioData(metrics, protocol_rows, timeframe, denominator), tie))

\* the dictionary of one ranking per timeframe
Rankings(metrics, protocol_rows, denominator, tie) ==
    [t \in {Timeframes[i] : i \in 1..Len(Timeframes)} |->
        RankQuery(metrics, protocol_rows, t, denominator, tie)]

\* a revenue query that ranks only the protocols that also have a fees record
RevenueRankingsAmongFees(data, tie) ==
    Rankings(SelectSeq(MetricView(data, "revenue"),
                       LAMBDA r : \E i \in 1..Len(MetricView(data, "fees")) :
                                     SqlEq(r.id, MetricView(data, "fees")[i].id)),
             ProtocolsView(data), "mcap", tie)

\* analyze_valuation: results['revenue_mcap']
RevenueRankings(data, tie) ==
    Rankings(MetricView(data, "revenue"), ProtocolsView(data), "mcap", tie)

\* analyze_valuation: results['fees_mcap']
FeesRankings(data, tie) ==
    Rankings(MetricView(data, "fees"), ProtocolsView(data), "mcap", tie)

\* analyze_efficiency: results
EfficiencyRankings(data, tie) ==
    Rankings(MetricView(data, "fees"), ProtocolsView(data), "tvl", tie)

\* the temporary files of the analyses, one per source
FileOf(source) == source \o ".json"

FileNames == {FileOf(s) : s \in Sources}

\* no file of that name
NoFile == [written_by |-> 0, content |-> JNull]

\* with open(file, "w") as f: json.dump(data[source], f), by the given call
json_dump(dir, sources, call, data) ==
    [f \in FileNames |->
        IF \E s \in sources : f = FileOf(s)
        THEN [written_by |-> call,
              content    |-> data[CHOOSE s \in sources : f = FileOf(s)]]
        ELSE dir[f]]

\* a clean-up that deletes nothing
keep_files(dir, sources) == dir

\* protocols_file.unlink() ...
unlink(dir, sources) ==
    [f \in FileNames |-> IF \E s \in sources : f = FileOf(s) THEN NoFile ELSE dir[f]]

\* read_json_auto('data/<source>.json'): what the views read
read_json_auto(dir) == [s \in Sources |-> dir[FileOf(s)].content]

\* the files an analysis writes, reads and deletes
TempFiles(call) == IF call = "efficiency" THEN {"protocols", "fees"} ELSE Sources

AnalysisInit ==
    /\ analysis = [call |-> "none", status |-> "idle"]
    /\ results = <<>>
    /\ history = <<>>
    /\ data_dir = [f \in FileNames |-> NoFile]
    /\ connections = {}
    /\ reads = {}

\* analyze_efficiency(data) with data the documents of the endpoints
AnalyzeEfficiency ==
    /\ UNCHANGED <<env_vars, main_vars, schema_vars>>
    /\ pc \in {"fetch_protocols", "done", "raised"}
    /\ Len(history) < calls
    /\ LET call    == Len(history) + 1
           written == json_dump(data_dir, TempFiles("efficiency"), call, endpoint)
           data    == read_json_auto(written)
       IN /\ reads' = {written[FileOf(s)].written_by : s \in TempFiles("efficiency")}
          /\ IF ColumnsBound(data, {"fees"}, "tvl")
             THEN /\ \E tie \in TieOrders : results' = EfficiencyRankings(data, tie)
                  /\ analysis' = [call |-> "efficiency", status |-> "returned"]
                  /\ data_dir' = unlink(written, TempFiles("efficiency"))
                  /\ connections' = connections
             ELSE /\ results' = <<>>
                  /\ analysis' = [call |-> "efficiency", status |-> "raised"]
                  /\ data_dir' = written
                  /\ connections' = connections \cup {call}
          /\ history' = Append(history, analysis')

\* analyze_valuation(data) with data the documents of the endpoints
AnalyzeValuation ==
    /\ UNCHANGED <<env_vars, main_vars, schema_vars>>
    /\ pc \in {"fetch_protocols", "done", "raised"}
    /\ Len(history) < calls
    /\ LET call    == Len(history) + 1
           written == json_dump(data_dir, TempFiles("valuation"), call, endpoint)
           data    == read_json_auto(written)
       IN /\ reads' = {written[FileOf(s)].written_by : s \in TempFiles("valuation")}
          /\ IF ColumnsBound(data, {"fees", "revenue"}, "mcap")
             THEN /\ \E tie \in TieOrders :
                       results' = [fees_mcap    |-> FeesRankings(data, tie),
                                   revenue_mcap |-> RevenueRankings(data, tie)]
                  /\ analysis' = [call |-> "valuation", status |-> "returned"]
                  /\ data_dir' = unlink(written, TempFiles("valuation"))
                  /\ connections' = connections
             ELSE /\ results' = <<>>
                  /\ analysis' = [call |-> "valuation", status |-> "raised"]
                  /\ data_dir' = written
                  /\ connections' = connections \cup {call}
          /\ history' = Append(history, analysis')

AnalysisNext == AnalyzeEfficiency \/ AnalyzeValuation

(***************************************************************************)
(* The documents the endpoints serve                                       *)
(***************************************************************************)
Absent == [kind |-> "absent", val |-> "-"]

\* the object with the given items, leaving out the keys whose value is Absent
Object(items) ==
    JObj(Flat([i \in 1..Len(items) |->
                 IF items[i][2] = Absent THEN <<>> ELSE <<items[i]>>]))

\* a record of /protocols
ProtocolEntity(id, name, category, chains, tvl) ==
    Object(<< <<"id", id>>, <<"name", name>>, <<"category", category>>,
              <<"chains", chains>>, <<"chain", JStr("Multi-Chain")>>,
              <<"tvl", tvl>>, <<"mcap", JInt(1000)>> >>)

\* a record of the protocols list of /overview/fees
MetricEntity(id, name, category, chains, total24h) ==
    Object(<< <<"id", id>>, <<"name", name>>, <<"category", category>>,
              <<"chains", chains>>, <<"total24h", total24h>>,
              <<"total7d", JInt(70)>>, <<"total30d", JInt(300)>>,
              <<"total1y", JInt(3650)>>, <<"totalAllTime", JInt(10000)>> >>)

Entity(source, id, name, category, chains, metric) ==
    IF source = "protocols"
    THEN ProtocolEntity(id, name, category, chains, metric)
    ELSE MetricEntity(id, name, category, chains, metric)

Eth == JStr("eth")
Arb == JStr("arb")

\* the protocol X of two chains and the protocol Y of one
EntityX(source, metric) ==
    Entity(source, JInt(1), JStr("X"), JStr("DEX"), JArr(<<Eth, Arb>>), metric)

EntityY(source, metric) ==
    Entity(source, JInt(2), JStr("Y"), JStr("Lending"), JArr(<<Eth>>), metric)

\* the body an endpoint serves for a list of entities
Document(source, entities) ==
    IF source = "protocols" THEN JArr(entities)
    ELSE JObj(<< <<"protocols", JArr(entities)>> >>)

NarrowEntities(source) ==
    IF source = "protocols"
    THEN {EntityX(source, JInt(100)), EntityY(source, JInt(0))}
    ELSE {EntityX(source, JInt(10)), EntityY(source, JInt(10))}

NarrowDocuments(source) ==
    {Document(source, es) : es \in SeqsUpTo(NarrowEntities(source), MaxEntities)}

\* entities that lack a mandatory field, or hold a null or a wrong type in it
Malformed(source) ==
    LET m == JInt(10) IN
    { Entity(source, JInt(3), Absent, JStr("DEX"), JArr(<<Eth>>), m),
      Entity(source, JInt(3), JNull, JStr("DEX"), JArr(<<Eth>>), m),
      Entity(source, JInt(3), JStr("Z"), Absent, JArr(<<Eth>>), m),
      Entity(source, JInt(3), JStr("Z"), JNull, JArr(<<Eth>>), m),
      Entity(source, JInt(3), JStr("Z"), JStr("DEX"), Absent, m),
      Entity(source, JInt(3), JStr("Z"), JStr("DEX"), JNull, m),
      Entity(source, JInt(3), JStr("Z"), JStr("DEX"), Eth, m),
      Entity(source, JInt(3), JStr("Z"), JStr("DEX"), JArr(<<>>), m) }

WellFormed(source) ==
    {EntityX(source, m) : m \in {Absent, JNull, JInt(10)}}
    \cup {EntityY(source, m) : m \in {Absent, JNull, JInt(10)}}
    \cup {Entity(source, JInt(4), JStr("W"), JStr("DEX"), JArr(<<Eth, Eth>>), JInt(10))}

WideDocuments(source) ==
    {Document(source, es) :
        es \in SeqsUpTo(Malformed(source) \cup WellFormed(source), MaxEntities)}

\* every endpoint serves a short list of the protocols X and Y
NarrowEnv ==
    /\ endpoint \in [Sources -> UNION {NarrowDocuments(s) : s \in Sources}]
    /\ \A s \in Sources : endpoint[s] \in NarrowDocuments(s)
    /\ duckdb_rejects_empty_executemany \in BOOLEAN
    /\ calls = 1

\* one endpoint serves any short list of entities, malformed ones included;
\* the other two serve the protocol X
WideEnv ==
    /\ \E focus \in Sources :
         \E doc \in WideDocuments(focus) :
            endpoint = [s \in Sources |->
                          IF s = focus THEN doc
                          ELSE Document(s, <<EntityX(s, JInt(10))>>)]
    /\ duckdb_rejects_empty_executemany \in BOOLEAN
    /\ calls = 1

\* the records the analyses are run on: protocols that differ in tvl and mcap
AnalysisProtocol(id, name, tvl, mcap) ==
    Object(<< <<"id", JInt(id)>>, <<"name", JStr(name)>>, <<"category", JStr("DEX")>>,
              <<"chain", JStr("Ethereum")>>, <<"tvl", tvl>>, <<"mcap", mcap>> >>)

AnalysisProtocols ==
    << AnalysisProtocol(1, "X", JInt(100), JInt(200)),
       AnalysisProtocol(2, "Y", JInt(200), JInt(100)),
       AnalysisProtocol(1, "X", JInt(0), JNull),
       AnalysisProtocol(1, "X", JInt(-100), Absent),
       AnalysisProtocol(1, "X", Absent, JInt(0)),
       AnalysisProtocol(1, "X", JNull, JInt(-100)) >>

\* fees and revenue records that differ in their totals
AnalysisMetric(id, name, t24h, t7d, t30d, t1y) ==
    Object(<< <<"id", JInt(id)>>, <<"name", JStr(name)>>,
              <<"total24h", t24h>>, <<"total7d", t7d>>, <<"total30d", t30d>>,
              <<"total1y", t1y>>, <<"totalAllTime", JInt(50)>> >>)

AnalysisMetrics ==
    << AnalysisMetric(1, "X", JInt(10), JInt(20), JInt(40), JInt(40)),
       AnalysisMetric(1, "X", JInt(20), JInt(20), JNull, JInt(0)),
       AnalysisMetric(2, "Y", JNull, JInt(10), JInt(40), Absent) >>

\* the lists of at most n of the given records, repeats allowed, in the order given
ListsOf(records, n) ==
    LET picks == {s \in SeqsUpTo(1..Len(records), n) :
                    \A i \in 1..Len(s) : \A j \in i..Len(s) : s[i] <= s[j]}
    IN {[i \in 1..Len(s) |-> records[s[i]]] : s \in picks}

AnalysisEnv ==
    /\ \E ps \in ListsOf(AnalysisProtocols, MaxProtocols) :
       \E fs \in ListsOf(AnalysisMetrics, MaxMetrics) :
       \E rs \in ListsOf(AnalysisMetrics, MaxMetrics) :
          endpoint = [s \in Sources |->
                        IF s = "protocols" THEN Document(s, ps)
                        ELSE IF s = "fees" THEN Document(s, fs)
                        ELSE Document(s, rs)]
    /\ duckdb_rejects_empty_executemany = TRUE
    /\ calls = 1

(***************************************************************************)
(* The schema tools applied to one decoded document                        *)
(***************************************************************************)
SchemaIdle ==
    /\ schema_in = JNull
    /\ schema_desc = [type |-> "unset"]
    /\ schema_profile = EmptySchema
    /\ schema_done = {}

SchemaInit ==
    /\ schema_in \in SchemaInputs
    /\ schema_desc = [type |-> "unset"]
    /\ schema_profile = EmptySchema
    /\ schema_done = {}

InferSchema ==
    /\ UNCHANGED <<env_vars, main_vars, analysis_vars>>
    /\ "infer_schema" \notin schema_done
    /\ schema_desc' = infer_schema(schema_in)
    /\ schema_done' = schema_done \cup {"infer_schema"}
    /\ UNCHANGED <<schema_in, schema_profile>>

AnalyzeSchema ==
    /\ UNCHANGED <<env_vars, main_vars, analysis_vars>>
    /\ "analyze_schema" \notin schema_done
    /\ schema_profile' = analyze_schema(schema_in, "")
    /\ schema_done' = schema_done \cup {"analyze_schema"}
    /\ UNCHANGED <<schema_in, schema_desc>>

SchemaNext == InferSchema \/ AnalyzeSchema

\* the schema tools run on their own; no endpoint is loaded into DuckDB
EnvIdle ==
    /\ endpoint = [s \in Sources |-> JArr(<<>>)]
    /\ duckdb_rejects_empty_executemany = TRUE
    /\ calls = 1

InitSchema == SchemaInit /\ EnvIdle /\ MainInit /\ AnalysisInit

SpecSchema == InitSchema /\ [][SchemaNext]_vars

\* main.py run against endpoints serving the protocols X and Y
Init == NarrowEnv /\ MainInit /\ AnalysisInit /\ SchemaIdle

\* main.py and the analyses run against endpoints serving the protocols X and Y
Next == MainNext \/ AnalysisNext

Spec == Init /\ [][Next]_vars

\* main.py run against endpoints of which one serves arbitrary entities
InitFlatten == WideEnv /\ MainInit /\ AnalysisInit /\ SchemaIdle

SpecFlatten == InitFlatten /\ [][MainNext]_vars

\* the analyses run on lists of protocols, fees and revenue records
InitAnalysis == AnalysisEnv /\ MainInit /\ AnalysisInit /\ SchemaIdle

SpecAnalysis == InitAnalysis /\ [][AnalysisNext]_vars

(***************************************************************************)
(* C9: infer_schema maps every scalar to the descriptor of its own kind:   *)
(* a string to "string", an integer to "integer", a non-integer number to  *)
(* "number", true and false to "boolean", null to "null", and any other    *)
(* value to "unknown".                                                     *)
(***************************************************************************)
OwnKindDescriptor(v) ==
    CASE v.kind = "string"  -> [type |-> "string"]
      [] v.kind = "integer" -> [type |-> "integer"]
      [] v.kind = "number"  -> [type |-> "number"]
      [] v.kind = "boolean" -> [type |-> "boolean"]
      [] v.kind = "null"    -> [type |-> "null"]
      [] OTHER              -> [type |-> "unknown"]

C9_ScalarToOwnKind ==
    ("infer_schema" \in schema_done /\ schema_in \in Scalars)
        => schema_desc = OwnKindDescriptor(schema_in)

(***************************************************************************)
(* C10: for an object whose field a holds a non-empty list of objects,     *)
(* analyze_schema returns a flat map in which path "a" has the type-name   *)
(* set {"list"} and each path "a.b" has exactly the type name of field b   *)
(* in the first list element only; later elements add nothing.             *)
(***************************************************************************)
IsListOfObjectsAtA(v) ==
    /\ v.kind = "object"
    /\ Len(v.val) = 1
    /\ v.val[1][1] = "a"
    /\ v.val[1][2].kind = "array"
    /\ v.val[1][2].val # <<>>
    /\ \A i \in 1..Len(v.val[1][2].val) : v.val[1][2].val[i].kind = "object"

FirstElement(v) == v.val[1][2].val[1]

\* the type names of the schema vocabulary (get_schema.py's descriptors)
VocabularyName(v) ==
    CASE v.kind = "string"  -> "string"
      [] v.kind = "integer" -> "integer"
      [] v.kind = "number"  -> "number"
      [] v.kind = "boolean" -> "boolean"
      [] v.kind = "null"    -> "null"
      [] OTHER              -> "unknown"

\* the names of the Python classes the decoded values have
RuntimeName(v) ==
    CASE v.kind = "string"  -> "str"
      [] v.kind = "integer" -> "int"
      [] v.kind = "number"  -> "float"
      [] v.kind = "boolean" -> "bool"
      [] v.kind = "null"    -> "NoneType"
      [] OTHER              -> "bytes"

ProfileOfFirstElement(v, Name(_)) ==
    LET first == FirstElement(v)
        paths == {"a"} \cup {"a." \o first.val[i][1] : i \in 1..Len(first.val)}
    IN /\ DOMAIN schema_profile = paths
       /\ schema_profile["a"] = {"list"}
       /\ \A i \in 1..Len(first.val) :
             schema_profile["a." \o first.val[i][1]] = {Name(first.val[i][2])}

\* C10 as stated: the type names are those of the schema vocabulary
C10_FirstElementVocabulary ==
    ("analyze_schema" \in schema_done /\ IsListOfObjectsAtA(schema_in))
        => ProfileOfFirstElement(schema_in, VocabularyName)

\* C10 amended: the type names are those of the Python classes
C10_FirstElementRuntimeNames ==
    ("analyze_schema" \in schema_done /\ IsListOfObjectsAtA(schema_in))
        => ProfileOfFirstElement(schema_in, RuntimeName)

\* {"a": [{"b": 1}, {"b": "x"}]} has been profiled
C10_Witness ==
    /\ "analyze_schema" \in schema_done
    /\ MaxListLen >= 2
    /\ schema_in = JObj(<< <<"a", JArr(<< JObj(<< <<"b", JInt(1)>> >>),
                                          JObj(<< <<"b", JStr("x")>> >>) >>)>> >>)
    /\ schema_profile = ("a" :> {"list"}) @@ ("a.b" :> {"int"})

(***************************************************************************)
(* The rankings an analysis returned, each with the source of its          *)
(* numerator, the protocol field of its denominator and its timeframe      *)
(***************************************************************************)
TimeframeSet == {Timeframes[i] : i \in 1..Len(Timeframes)}

Returned(call) == analysis = [call |-> call, status |-> "returned"]

ReturnedRankings ==
    IF Returned("efficiency")
    THEN {[rows |-> results[t], source |-> "fees", denominator |-> "tvl", timeframe |-> t] :
             t \in TimeframeSet}
    ELSE IF Returned("valuation")
    THEN {[rows |-> results.fees_mcap[t], source |-> "fees", denominator |-> "mcap",
           timeframe |-> t] : t \in TimeframeSet}
         \cup {[rows |-> results.revenue_mcap[t], source |-> "revenue",
                denominator |-> "mcap", timeframe |-> t] : t \in TimeframeSet}
    ELSE {}

\* the field of a record of the documents is a number above 0
FieldPositive(record, key) ==
    /\ HasKey(record, key)
    /\ Field(record, key).kind = "integer"
    /\ Field(record, key).val > 0

\* the field of a record of the documents is a number
FieldNumber(record, key) == HasKey(record, key) /\ Field(record, key).kind = "integer"

\* the (metric record, protocol record) pairs of equal id
MatchingPairs(source) ==
    {e \in (1..Len(MetricRecords(endpoint, source))) \X (1..Len(ProtocolRecords(endpoint))) :
        LET m == MetricRecords(endpoint, source)[e[1]]
            p == ProtocolRecords(endpoint)[e[2]]
        IN FieldNumber(m, "id") /\ FieldNumber(p, "id")
           /\ Field(m, "id").val = Field(p, "id").val}

\* the joined rows with denominator > 0
EligiblePairs(source, denominator) ==
    {e \in MatchingPairs(source) :
        FieldPositive(ProtocolRecords(endpoint)[e[2]], denominator)}

\* numerator / denominator of an eligible pair, as <<n, d>>; <<>> without numerator
PairRatio(e, source, denominator, timeframe) ==
    LET m == MetricRecords(endpoint, source)[e[1]]
        p == ProtocolRecords(endpoint)[e[2]]
    IN IF FieldNumber(m, "total" \o timeframe)
       THEN <<Field(m, "total" \o timeframe).val, Field(p, denominator).val>>
       ELSE <<>>

\* x / y > a / b for fractions of positive denominators
FractionGreater(f, g) == f # <<>> /\ g # <<>> /\ f[1] * g[2] > g[1] * f[2]

\* the ratio of a returned row as <<n, d>>; <<>> for NULL
RowRatio(row) == IF row.ratio.kind = "NUM" THEN row.ratio.val ELSE <<>>

(***************************************************************************)
(* C1: every row returned by analyze_efficiency (denominator tvl) and by   *)
(* both rankings of analyze_valuation (denominator mcap), for every        *)
(* timeframe, has a denominator strictly greater than 0.                   *)
(***************************************************************************)
C1_DenominatorPositive ==
    \A r \in ReturnedRankings : \A i \in 1..Len(r.rows) :
        /\ r.rows[i].denominator.kind = "NUM"
        /\ r.rows[i].denominator.val[1] > 0

\* a ranking was returned although a protocol whose tvl (mcap) is a number
\* not above 0, and one whose tvl (mcap) is null or absent, match a record
C1_Witness ==
    \E r \in ReturnedRankings :
        /\ r.rows # <<>>
        /\ \E e \in MatchingPairs(r.source) :
             LET p == ProtocolRecords(endpoint)[e[2]] IN
             FieldNumber(p, r.denominator) /\ Field(p, r.denominator).val <= 0
        /\ \E e \in MatchingPairs(r.source) :
             LET p == ProtocolRecords(endpoint)[e[2]] IN
             ~FieldNumber(p, r.denominator)

(***************************************************************************)
(* C3: for every timeframe and every ranking the returned sequence has     *)
(* length exactly min(5, eligibleRowCount), its ratios are non-increasing  *)
(* in output order, and no eligible row with a larger ratio than a         *)
(* returned row is left out.                                               *)
(***************************************************************************)
C3_TopKSortedComplete ==
    \A r \in ReturnedRankings :
        LET eligible == EligiblePairs(r.source, r.denominator)
            n == Cardinality(eligible)
        IN /\ Len(r.rows) = IF n < 5 THEN n ELSE 5
           /\ \A i \in 1..Len(r.rows) : \A j \in i..Len(r.rows) :
                ~FractionGreater(RowRatio(r.rows[j]), RowRatio(r.rows[i]))
           /\ \A k \in 1..Len(r.rows) :
                Cardinality({e \in eligible :
                    FractionGreater(PairRatio(e, r.source, r.denominator, r.timeframe),
                                    RowRatio(r.rows[k]))})
                = Cardinality({i \in 1..Len(r.rows) :
                    FractionGreater(RowRatio(r.rows[i]), RowRatio(r.rows[k]))})

\* a ranking of 5 rows of different ratios, cut from more than 5 eligible rows
C3_Witness ==
    \E r \in ReturnedRankings :
        /\ Cardinality(EligiblePairs(r.source, r.denominator)) > 5
        /\ Len(r.rows) = 5
        /\ FractionGreater(RowRatio(r.rows[1]), RowRatio(r.rows[5]))

(***************************************************************************)
(* C5: in every row fed to ratio arithmetic each numeric metric field that *)
(* is absent from, or null in, the source record has the value 0 and is    *)
(* never null; every computed ratio is a defined number, never null.       *)
(***************************************************************************)
C5_NumeratorAndRatioDefined ==
    \A r \in ReturnedRankings : \A i \in 1..Len(r.rows) :
        /\ r.rows[i].numerator # SqlNull
        /\ r.rows[i].ratio # SqlNull

(***************************************************************************)
(* C7: in analyze_valuation, for every timeframe, a protocol row is a      *)
(* candidate for the fees/mcap ranking if and only if it is a candidate    *)
(* for the revenue/mcap ranking.  A ranking of fewer than 5 rows shows     *)
(* every candidate.                                                        *)
(***************************************************************************)
\* the protocol columns of the rows of a ranking
ProtocolsRanked(rows) ==
    {<<rows[i].category, rows[i].chain, rows[i].denominator>> : i \in 1..Len(rows)}

\* the same columns of the protocols with mcap > 0 that have a record of the source
ProtocolsWithRecord(source) ==
    {LET p == ProtocolRecords(endpoint)[e[2]] IN
        <<Varchar(Field(p, "category").val), Varchar(Field(p, "chain").val),
          [kind |-> "NUM", val |-> <<Field(p, "mcap").val, 1>>]>> :
     e \in EligiblePairs(source, "mcap")}

\* C7 as stated: the two rankings have the same candidates
C7_SameCandidates ==
    Returned("valuation") =>
        \A t \in TimeframeSet :
            (Len(results.fees_mcap[t]) < 5 /\ Len(results.revenue_mcap[t]) < 5)
                => ProtocolsRanked(results.fees_mcap[t])
                   = ProtocolsRanked(results.revenue_mcap[t])

\* C7 amended: the candidates of each ranking are the protocols with mcap > 0
\* that have a record, of equal id, in the source of that ranking
C7_OwnJoinCandidates ==
    Returned("valuation") =>
        \A t \in TimeframeSet :
            /\ Len(results.fees_mcap[t]) < 5
                 => ProtocolsRanked(results.fees_mcap[t]) = ProtocolsWithRecord("fees")
            /\ Len(results.revenue_mcap[t]) < 5
                 => ProtocolsRanked(results.revenue_mcap[t]) = ProtocolsWithRecord("revenue")

\* a protocol is ranked by fees/mcap and not by revenue/mcap
C7_Witness ==
    /\ Returned("valuation")
    /\ Len(results.fees_mcap["24h"]) < 5
    /\ Len(results.revenue_mcap["24h"]) < 5
    /\ ProtocolsRanked(results.fees_mcap["24h"]) # {}
    /\ ProtocolsRanked(results.revenue_mcap["24h"]) # {}
    /\ ProtocolsRanked(results.fees_mcap["24h"])
         \ ProtocolsRanked(results.revenue_mcap["24h"]) # {}

(***************************************************************************)
(* The flattening statements seen from the batch they are given            *)
(***************************************************************************)
\* the statement of a source has run to its end
Flattened(source) ==
    CASE source = "protocols" -> pc \in {"flatten_fees", "flatten_revenue", "join", "done"}
      [] source = "fees"      -> pc \in {"flatten_revenue", "join", "done"}
      [] OTHER                -> pc \in {"join", "done"}

Table(source) ==
    CASE source = "protocols" -> protocols
      [] source = "fees"      -> fees
      [] OTHER                -> revenue

\* the flattened rows of a source as (id, chain) pairs
ExpandedRows(source) ==
    CASE source = "protocols" ->
            [i \in 1..Len(protocols_expanded) |->
                <<protocols_expanded[i].protocol_id, protocols_expanded[i].chain>>]
      [] source = "fees" ->
            [i \in 1..Len(fees_expanded) |->
                <<fees_expanded[i].id, fees_expanded[i].chain>>]
      [] OTHER ->
            [i \in 1..Len(revenue_expanded) |->
                <<revenue_expanded[i].id, revenue_expanded[i].chain>>]

\* the entity has a name, a category and a list of chains
HasMandatoryFields(entity) ==
    /\ HasKey(entity, "name") /\ Field(entity, "name").kind # "null"
    /\ HasKey(entity, "category") /\ Field(entity, "category").kind # "null"
    /\ HasKey(entity, "chains") /\ Field(entity, "chains").kind = "array"

RECURSIVE SumOf(_)
SumOf(s) == IF s = <<>> THEN 0 ELSE Head(s) + SumOf(Tail(s))

\* len(chains), summed over the entities of the batch that have the given id
\* and the mandatory fields
ChainsOfId(table, id) ==
    SumOf([i \in 1..Len(table) |->
             IF HasMandatoryFields(table[i]) /\ Field(table[i], "id") = id
             THEN Len(Field(table[i], "chains").val) ELSE 0])

EntityIds == {JInt(n) : n \in 1..4}

(***************************************************************************)
(* C2: for every source entity that has the mandatory fields the flatten   *)
(* step emits exactly len(chains) rows, one per element of its chains      *)
(* list; every emitted row's chain is non-null and a member of that        *)
(* entity's chains list; an empty chains list emits zero rows.             *)
(***************************************************************************)
C2_RowPerChain ==
    \A source \in Sources :
        Flattened(source) =>
            /\ \A id \in EntityIds :
                 Cardinality({i \in 1..Len(ExpandedRows(source)) :
                                ExpandedRows(source)[i][1] = id})
                 = ChainsOfId(Table(source), id)
            /\ \A i \in 1..Len(ExpandedRows(source)) :
                 /\ ExpandedRows(source)[i][2] # SqlNull
                 /\ \E k \in 1..Len(Table(source)) :
                      LET entity == Table(source)[k] IN
                      /\ HasMandatoryFields(entity)
                      /\ Field(entity, "id") = ExpandedRows(source)[i][1]
                      /\ \E c \in 1..Len(Field(entity, "chains").val) :
                           Varchar(Field(entity, "chains").val[c].val)
                           = ExpandedRows(source)[i][2]

(***************************************************************************)
(* C6: an entity whose name or category is null or absent, or whose chains *)
(* field is absent, null, not a list or an empty list, contributes zero    *)
(* flattened rows; the flatten step does not raise because of it; the rows *)
(* of the other entities of the batch are exactly those emitted when the   *)
(* malformed entity is removed from the batch.                             *)
(***************************************************************************)
IsMalformed(entity) ==
    \/ ~HasMandatoryFields(entity)
    \/ Field(entity, "chains").val = <<>>

WithoutMalformed(table) == SelectSeq(table, LAMBDA entity : ~IsMalformed(entity))

\* main raised, and not in a load
RaisedInFlatten ==
    /\ pc = "raised"
    /\ ~ExecutemanyRaises(protocols_data)
    /\ ~ExecutemanyRaises(fees_data)
    /\ ~ExecutemanyRaises(revenue_data)

C6_MalformedDropped ==
    /\ ~RaisedInFlatten
    /\ Flattened("protocols") =>
         protocols_expanded = ExpandProtocols(WithoutMalformed(protocols))
    /\ Flattened("fees") => fees_expanded = ExpandMetrics(WithoutMalformed(fees))
    /\ Flattened("revenue") =>
         revenue_expanded = ExpandMetrics(WithoutMalformed(revenue))
    /\ \A source \in Sources :
         Flattened(source) =>
            \A k \in 1..Len(Table(source)) :
               IsMalformed(Table(source)[k]) =>
                  \A i \in 1..Len(ExpandedRows(source)) :
                     ExpandedRows(source)[i][1] # JSON_EXTRACT(Table(source)[k], "id")

\* a batch of a malformed and a well-formed entity was flattened
C6_Witness ==
    \E source \in Sources :
        /\ Flattened(source)
        /\ \E k \in 1..Len(Table(source)) :
             /\ IsMalformed(Table(source)[k])
             /\ HasKey(Table(source)[k], "chains")
             /\ Field(Table(source)[k], "chains").kind = "string"
        /\ \E k \in 1..Len(Table(source)) : ~IsMalformed(Table(source)[k])

(***************************************************************************)
(* C4: the protocol X of chains [eth, arb] and tvl 100, with a fees record *)
(* of the same chains and total24h 10: flatten and join yield 2 joined     *)
(* rows, one per chain, each with tvl 100 and fees 10, and the fees/tvl    *)
(* ranking of 24h has 2 rows, each of ratio 0.1.                           *)
(***************************************************************************)
ExampleServed ==
    /\ endpoint["protocols"] = Document("protocols", <<EntityX("protocols", JInt(100))>>)
    /\ endpoint["fees"] = Document("fees", <<EntityX("fees", JInt(10))>>)
    /\ endpoint["revenue"] = Document("revenue", <<EntityX("revenue", JInt(10))>>)

C4_ExampleRowPerChain ==
    ExampleServed =>
        /\ (pc = "done" /\ errors = {}) =>
              /\ Len(joined_data) = 2
              /\ {joined_data[i].chain : i \in 1..Len(joined_data)}
                 = {Varchar("eth"), Varchar("arb")}
              /\ \A i \in 1..Len(joined_data) :
                    /\ joined_data[i].tvl = JInt(100)
                    /\ joined_data[i].fees_24h = JInt(10)
        /\ Returned("efficiency") =>
              /\ Len(results["24h"]) = 2
              /\ \A i \in 1..Len(results["24h"]) : results["24h"][i].ratio = Num(1, 10)

(***************************************************************************)
(* C8: when the fetch of a source fails with a transport or HTTP error,    *)
(* fetch_data issues no second request for it, returns an empty dataset    *)
(* for it, the other sources are still fetched, the process does not       *)
(* raise, and the joined table has zero rows.                              *)
(***************************************************************************)
FetchedData(source) ==
    CASE source = "protocols" -> protocols_data
      [] source = "fees"      -> fees_data
      [] OTHER                -> revenue_data

C8_FailedFetchDegrades ==
    errors # {} =>
        /\ \A source \in Sources : requests[source] <= 1
        /\ \A source \in errors : FetchedData(source) = <<>>
        /\ pc \notin {"fetch_protocols", "fetch_fees", "fetch_revenue"}
              => \A source \in Sources : requests[source] = 1
        /\ pc # "raised"
        /\ pc = "done" => joined_data = <<>>

(***************************************************************************)
(* The join statement of main.py applied to flattened tables of its own:   *)
(* rows of one key twice, of another chain, and of a NULL chain            *)
(***************************************************************************)
\* a protocol or metric entity named X of the given id
EntityOfId(source, id) ==
    Entity(source, JInt(id), JStr("X"), JStr("DEX"), JArr(<<Eth, Arb>>), JInt(10))

ProtocolRows ==
    << ProtocolRow(EntityOfId("protocols", 1), Varchar("eth")),
       ProtocolRow(EntityOfId("protocols", 2), Varchar("eth")),
       ProtocolRow(EntityOfId("protocols", 1), Varchar("arb")),
       ProtocolRow(EntityOfId("protocols", 1), SqlNull) >>

MetricRows(source) ==
    << MetricRow(EntityOfId(source, 1), Varchar("eth")),
       MetricRow(EntityOfId(source, 2), Varchar("eth")),
       MetricRow(EntityOfId(source, 1), Varchar("arb")),
       MetricRow(EntityOfId(source, 1), SqlNull) >>

\* main.py about to execute CREATE TABLE joined_data
InitJoin ==
    /\ EnvIdle /\ AnalysisInit /\ SchemaIdle
    /\ pc = "join"
    /\ requests = [s \in Sources |-> 1]
    /\ errors = {}
    /\ protocols_data = <<>> /\ fees_data = <<>> /\ revenue_data = <<>>
    /\ protocols = <<>> /\ fees = <<>> /\ revenue = <<>>
    /\ protocols_expanded \in ListsOf(ProtocolRows, MaxRows)
    /\ fees_expanded \in ListsOf(MetricRows("fees"), MaxRows)
    /\ revenue_expanded \in ListsOf(MetricRows("revenue"), MaxRows)
    /\ joined_data = <<>>

SpecJoin == InitJoin /\ [][Join]_vars

(***************************************************************************)
(* C11: the three-way inner join on (name, category, chain) gives the same *)
(* set of joined rows whichever pair is joined first: join(join(A,B),C)    *)
(* equals join(A, join(B,C)) as row-sets, and when a key occurs more than  *)
(* once on a side every combination of matching rows is present.           *)
(***************************************************************************)
\* join(B, C): the pairs of a fees row and a revenue row of equal key
FeesRevenuePairs ==
    {e \in (1..Len(fees_expanded)) \X (1..Len(revenue_expanded)) :
        JoinOn(fees_expanded[e[1]], revenue_expanded[e[2]])}

\* join(A, join(B, C)): a protocol row joined to those pairs on the same key
ProtocolsJoinedLast ==
    {JoinedRow(protocols_expanded[i], fees_expanded[e[1]], revenue_expanded[e[2]]) :
        <<i, e>> \in {x \in (1..Len(protocols_expanded)) \X FeesRevenuePairs :
                        JoinOn(protocols_expanded[x[1]], fees_expanded[x[2][1]])}}

\* the combinations of one row of each table that agree on the key
MatchingTriples ==
    {t \in (1..Len(protocols_expanded)) \X (1..Len(fees_expanded))
             \X (1..Len(revenue_expanded)) :
        /\ JoinOn(protocols_expanded[t[1]], fees_expanded[t[2]])
        /\ JoinOn(fees_expanded[t[2]], revenue_expanded[t[3]])
        /\ JoinOn(protocols_expanded[t[1]], revenue_expanded[t[3]])}

C11_JoinAssociative ==
    pc = "done" =>
        /\ {joined_data[i] : i \in 1..Len(joined_data)} = ProtocolsJoinedLast
        /\ Len(joined_data) = Cardinality(MatchingTriples)

\* the join ran on tables in which a key occurs twice on two sides and a row
\* has a NULL chain
C11_Witness ==
    /\ pc = "done"
    /\ Len(joined_data) >= 4
    /\ \E i \in 1..Len(protocols_expanded) : protocols_expanded[i].chain = SqlNull

(***************************************************************************)
(* C12: ranking is deterministic and stable: rows of equal ratio keep      *)
(* their input order, so the same joined input always gives the same       *)
(* ordered sequence and, when a tie straddles the cut at 5 rows, the same  *)
(* set of rows.                                                            *)
(***************************************************************************)
\* a has a ratio and b has none or a smaller one
SortsFirst(a, b) ==
    /\ RowRatio(a) # <<>>
    /\ RowRatio(b) = <<>> \/ FractionGreater(RowRatio(a), RowRatio(b))

\* the place of input row i in a stable descending sort
StablePosition(input, i) ==
    1 + Cardinality({j \in 1..Len(input) :
                        \/ SortsFirst(input[j], input[i])
                        \/ ~SortsFirst(input[i], input[j]) /\ j < i})

\* the first 5 rows of the stable descending sort of the input
StableRanking(input) ==
    [k \in 1..(IF Len(input) < 5 THEN Len(input) ELSE 5) |->
        input[CHOOSE i \in 1..Len(input) : StablePosition(input, i) = k]]

\* the joined and filtered rows a ranking query sorts, in the order of the join
RankingInput(r) ==
    RatioData(MetricView(endpoint, r.source), ProtocolsView(endpoint),
              r.timeframe, r.denominator)

C12_TiesInInputOrder ==
    \A r \in ReturnedRankings : r.rows = StableRanking(RankingInput(r))

(***************************************************************************)
(* The caller runs the analyses one after the other on the same documents  *)
(***************************************************************************)
CleanupEnv ==
    /\ \E ps \in ListsOf(AnalysisProtocols, MaxRecords) :
       \E fs \in ListsOf(AnalysisMetrics, MaxRecords) :
       \E rs \in ListsOf(AnalysisMetrics, MaxRecords) :
          endpoint = [s \in Sources |->
                        IF s = "protocols" THEN Document(s, ps)
                        ELSE IF s = "fees" THEN Document(s, fs)
                        ELSE Document(s, rs)]
    /\ duckdb_rejects_empty_executemany = TRUE
    /\ calls = MaxCalls

InitCleanup == CleanupEnv /\ MainInit /\ AnalysisInit /\ SchemaIdle

SpecCleanup == InitCleanup /\ [][AnalysisNext]_vars

(***************************************************************************)
(* C13: whenever analyze_efficiency or analyze_valuation returns, every    *)
(* temporary file it wrote under data/ has been deleted and its DuckDB     *)
(* connection is closed; analyses run one after the other, in either       *)
(* order, leave no temporary file behind, and a later run never reads a    *)
(* file written by an earlier one.                                         *)
(***************************************************************************)
FilesLeftBy(call) == {f \in FileNames : data_dir[f].written_by = call}

C13_ReturnCleansUp ==
    /\ \A call \in 1..Len(history) :
          history[call].status = "returned" =>
             /\ FilesLeftBy(call) = {}
             /\ call \notin connections
    /\ (\A call \in 1..Len(history) : history[call].status = "returned")
          => \A f \in FileNames : data_dir[f] = NoFile
    /\ history # <<>> => reads = {Len(history)}

\* analyze_valuation and then analyze_efficiency returned
C13_Witness ==
    /\ Len(history) = 2
    /\ history[1] = [call |-> "valuation", status |-> "returned"]
    /\ history[2] = [call |-> "efficiency", status |-> "returned"]
    /\ \A f \in FileNames : data_dir[f] = NoFile
====
